---------------------------- MODULE Spec2Model ----------------------------
(***************************************************************************)
(* Model of the realtime collaboration core of MapEditor.jsx               *)
(* (src/unnamed/part_001): one participant's editor component, the durable *)
(* map row it loads and writes, the change notifications of that row, and  *)
(* the broadcast channel.  Peers and the store are the environment.        *)
(*                                                                         *)
(* Every handler runs to completion (single-threaded event loop) and the   *)
(* component re-renders before the next event, so a handler's closure      *)
(* holds the state values of the moment it is dispatched.  What a pending  *)
(* timer callback closed over is kept with the timer.                      *)
(***************************************************************************)
EXTENDS Integers, Sequences, FiniteSets

----------------------------------------------------------------------------
(* Bounds of the model *)

\* nodes the in-memory graph may hold when addNode runs
MaxNodes == 3
\* largest numeric node identifier addNode may assign
MaxId == 3
\* pending timers, open dialogs, update requests the store has not yet
\* completed and undelivered change notifications, all together
MaxPending == 2
\* milliseconds up to which the time since the last cursor broadcast is
\* counted; anything beyond passes the limiter at every slider position used
MaxSince == 50
\* edges of a graph of the round trip
MaxEdges == 2

----------------------------------------------------------------------------
(* Values *)

Me == "u1"
Peer == "u2"
NoUser == ""
\* the map the component is mounted with, and the map it is switched to
FirstMap == "m1"
OtherMap == "m2"
MapIds == {FirstMap, OtherMap}
UserIds == {Me, Peer}

None == <<>>
Some(v) == <<v>>
\* JS  opt || dflt  for a nullable field
OrDefault(opt, dflt) == IF opt = None THEN dflt ELSE opt[1]

P10 == [x |-> 10, y |-> 10]
P30 == [x |-> 30, y |-> 30]
P50 == [x |-> 50, y |-> 50]
\* where the participant drags nodes to, and where peers do
DragPositions == {P50}
PeerPositions == {P30}
\* the node the participant and the peers drag
DragNodes == {"1"}
\* the node whose title the participant edits
EditNodes == {"1"}
\* the button of the edge-style dialog the participant presses
EdgeKinds == {"arrow"}
\* the elements a selection is made of
Selectable == {"1", "2", "e1-2"}

NoNode == ""
EmptyMap == [k \in {} |-> ""]
Put(m, k, v) == [x \in (DOMAIN m) \cup {k} |-> IF x = k THEN v ELSE m[x]]

Digit == <<"0", "1", "2", "3", "4", "5", "6", "7", "8", "9">>
NaN == -1

RECURSIVE toString(_)
\* Number.prototype.toString for the integers addNode produces
toString(n) ==
  IF n = NaN THEN "NaN"
  ELSE IF n < 10 THEN Digit[n + 1]
  ELSE toString(n \div 10) \o Digit[(n % 10) + 1]

\* parseInt(id) for identifiers that are decimal numerals, NaN otherwise
parseInt(s) ==
  IF \E n \in 0..(MaxId + 1) : toString(n) = s
  THEN CHOOSE n \in 0..(MaxId + 1) : toString(n) = s
  ELSE NaN

RECURSIVE JsMaxFrom(_, _, _)
JsMaxFrom(xs, i, acc) ==
  IF i > Len(xs) THEN acc
  ELSE IF xs[i] = NaN \/ acc = NaN THEN NaN
  ELSE JsMaxFrom(xs, i + 1, IF xs[i] > acc THEN xs[i] ELSE acc)

\* Math.max(...xs) for a non-empty list: NaN as soon as one element is NaN
JsMax(xs) == JsMaxFrom(xs, 2, xs[1])

Range(s) == {s[i] : i \in 1..Len(s)}
NodeIdsOf(ns) == {ns[i].id : i \in 1..Len(ns)}

MkNode(id, title, pos, editing) ==
  [id |-> id, title |-> title, position |-> pos, isEditing |-> editing]

MkEdge(src, tgt, kind) ==
  [id |-> "e" \o src \o "-" \o tgt, source |-> src, target |-> tgt, kind |-> kind]

MkDoc(ns, es, nm, ds, notes, data) ==
  [nodes |-> ns, edges |-> es, name |-> nm, description |-> ds,
   node_notes |-> notes, node_data |-> data]

\* a map row whose graph columns were never written
NullDoc == MkDoc(None, None, Some("M"), None, None, None)
DocA ==
  MkDoc(Some(<<MkNode("1", "Node 1", P10, FALSE)>>), Some(<<>>), Some("M"),
        Some(""), Some(EmptyMap), Some(EmptyMap))
DocB ==
  MkDoc(Some(<<MkNode("2", "Node 2", P10, FALSE), MkNode("1", "Node 1", P10, FALSE)>>),
        Some(<<MkEdge("1", "2", "arrow")>>), Some("M2"), Some("d"),
        Some(Put(EmptyMap, "1", "note")), Some(Put(EmptyMap, "2", "link")))

\* rows the map may hold when the session starts
InitDocs == {NullDoc, DocA}
\* rows other writers may store
PeerDocs == {DocB, NullDoc}

Labels == {"A"}

\* cursorFps: the default, the limits of the clamp, the slider positions used
DefaultFps == 20
MinFps == 5
MaxFps == 60
FpsChoices == {20, 60}
\* one second, in milliseconds
Second == 1000
\* the value of winElapsed while no pointer-move stream is being observed
NoStream == Second + 1

----------------------------------------------------------------------------
VARIABLES
  \* React state of the component
  nodes, edges, mapName, mapDescription, nodeNotes, nodeData, mapLoaded,
  editingNodeId, pendingLabel, currentUser,
  \* the identifiers of the selected elements
  selectedElements,
  \* the cursor overlay and its settings
  cursors, showMyCursor, showOthersCursors, cursorFps,
  \* the presence roster
  presenceUsers,
  participants,
  \* refs and the open edge-style dialog
  saveTimeout, dragSaveTimeout, chan, modal,
  \* milliseconds since lastCursorSentRef was set
  sinceCursor,
  \* position of the load effect
  pc,
  \* the map the component shows, and the maps whose change subscriptions
  \* of earlier runs of the load effect are still open
  mapId, staleChannels,
  \* the store and the transport
  inflight, notifs,
  \* the map row the store holds
  row,
  \* history: the handler dispatched last with what it issued, the writes
  \* issued by the current run of local mutations, and the writes issued by
  \* timers since a drag ended, while no other local event has happened
  last, burstWrites, dragWrites,
  \* history: the update request that failed last, until a snapshot replaces
  \* the graph in memory or a later local mutation issues a request
  failedWrite,
  \* history of a pointer-move stream: milliseconds since it began, whether
  \* the move of this millisecond was delivered, moves that passed the limiter
  winElapsed, winMoved, winAllowed

vars ==
  <<nodes, edges, mapName, mapDescription, nodeNotes, nodeData, mapLoaded,
    editingNodeId, pendingLabel, currentUser, selectedElements,
    cursors, showMyCursor, showOthersCursors, cursorFps, presenceUsers, participants,
    saveTimeout, dragSaveTimeout, chan, modal, sinceCursor, pc, mapId,
    staleChannels, inflight,
    notifs, row, last, burstWrites, dragWrites, failedWrite, winElapsed, winMoved, winAllowed>>

graphVars == <<nodes, edges, mapName, mapDescription, nodeNotes, nodeData>>
editVars == <<editingNodeId, pendingLabel>>
timerVars == <<saveTimeout, dragSaveTimeout>>
storeVars == <<inflight, notifs, row>>
cursorVars ==
  <<cursors, showMyCursor, showOthersCursors, cursorFps, sinceCursor,
    presenceUsers, participants>>
winVars == <<winElapsed, winMoved, winAllowed>>
sessionVars == <<mapId, staleChannels>>

NoTimer == None

\* a clearTimeout that cancels nothing
clearTimeoutKeeps(timers) == timers

\* the pending timers of a ref, oldest first.  clearTimeout(ref.current)
\* cancels what the ref holds; setTimeout adds a pending timer with the
\* values its callback closed over
clearTimeout(timers) == NoTimer
setTimeout(timers, callback) == Append(timers, callback)

Init ==
  /\ nodes = <<>>
  /\ edges = <<>>
  /\ mapName = ""
  /\ mapDescription = ""
  /\ nodeNotes = EmptyMap
  /\ nodeData = EmptyMap
  /\ mapLoaded = FALSE
  /\ editingNodeId = NoNode
  /\ pendingLabel = ""
  /\ selectedElements = {}
  /\ currentUser = NoUser
  /\ cursors = EmptyMap
  /\ showMyCursor = TRUE
  /\ showOthersCursors = TRUE
  /\ cursorFps = DefaultFps
  /\ presenceUsers = EmptyMap
  /\ participants = <<>>
  /\ sinceCursor = MaxSince
  /\ saveTimeout = NoTimer
  /\ dragSaveTimeout = NoTimer
  /\ chan = FALSE
  /\ modal = None
  /\ pc = "start"
  /\ mapId = FirstMap
  /\ staleChannels = {}
  /\ inflight = <<>>
  /\ notifs = <<>>
  /\ row \in InitDocs
  /\ last = [kind |-> "init", arg |-> "", wrote |-> 0, sent |-> 0]
  /\ burstWrites = 0
  /\ dragWrites = None
  /\ failedWrite = None
  /\ winElapsed = NoStream
  /\ winMoved = FALSE
  /\ winAllowed = 0

----------------------------------------------------------------------------
(* updateMapRow *)

\* what updateMapRow closes over (its useCallback dependencies)
Closure ==
  [loaded |-> mapLoaded, name |-> mapName, description |-> mapDescription,
   notes |-> nodeNotes, data |-> nodeData]

\* the payload updateMapRow builds from its arguments and its closure
Payload(newNodes, newEdges, cl) ==
  MkDoc(Some(newNodes), Some(newEdges),
        Some(IF cl.name = "" THEN "Untitled" ELSE cl.name),
        Some(cl.description), Some(cl.notes), Some(cl.data))

\* updateMapRow(newNodes, newEdges) called with closure cl: nothing before the
\* map is loaded, otherwise one update request to the store
updateMapRow(newNodes, newEdges, cl) ==
  IF ~cl.loaded
  THEN UNCHANGED inflight
  ELSE inflight' = Append(inflight, Payload(newNodes, newEdges, cl))

B2N(b) == IF b THEN 1 ELSE 0

\* what is pending: timers, the dialog, update requests, notifications
Pending ==
  B2N(saveTimeout # NoTimer) + B2N(dragSaveTimeout # NoTimer)
    + B2N(modal # None) + Len(inflight) + Len(notifs)

\* room for one more pending item
Room == Pending < MaxPending

\* the handler may issue an update request
CanWrite == Room

\* the update requests this step issued
Wrote == Len(inflight') - Len(inflight)

Min(a, b) == IF a < b THEN a ELSE b

\* history kept with every handler.  class is "mutation" for a local
\* mutation of the graph, "dragstop" for the drag-stop that ends a drag,
\* "timer" for a timer callback, "env" for a step of the store, a peer, the
\* transport or the clock, "local" for any other local event
Track(name, arg, class, wrote, sent) ==
  /\ last' = [kind |-> name, arg |-> arg, wrote |-> wrote, sent |-> sent]
  /\ burstWrites' = IF class = "mutation" THEN Min(2, burstWrites + wrote)
                    ELSE IF class = "env" THEN burstWrites ELSE 0
  /\ dragWrites' = IF class = "dragstop" THEN Some(0)
                   ELSE IF class = "env" THEN dragWrites
                   ELSE IF class = "timer" /\ dragWrites # None
                        THEN Some(Min(2, dragWrites[1] + wrote))
                   ELSE None
  /\ failedWrite' = IF name = "storeFail" THEN Some(Head(inflight))
                    ELSE IF name \in {"loadMap", "mapUpdate", "remount"} THEN None
                    ELSE IF class = "mutation" /\ wrote > 0 THEN None
                    ELSE failedWrite

\* the same for a handler that is no pointer-move and no passing of time
Hist(name, arg, class, wrote, sent) ==
  /\ Track(name, arg, class, wrote, sent)
  /\ UNCHANGED winVars

----------------------------------------------------------------------------
(* The load effect *)

\* load, first await: supabase.auth.getUser, setCurrentUser; the presence
\* effect then creates the realtime channel
loadUser ==
  /\ pc = "start"
  /\ pc' = "user"
  /\ currentUser' = Me
  /\ chan' = TRUE
  /\ UNCHANGED <<sessionVars, graphVars, mapLoaded, selectedElements, editVars, cursorVars, timerVars, modal,
                 storeVars>>
  /\ Hist("loadUser", "", "local", 0, 0)

\* load, the map row fetched: every field set from the row the store holds,
\* empty when null
loadMap(db) ==
  /\ pc = "user"
  /\ db = row
  /\ pc' = "loaded"
  /\ nodes' = OrDefault(db.nodes, <<>>)
  /\ edges' = OrDefault(db.edges, <<>>)
  /\ mapName' = OrDefault(db.name, "")
  /\ mapDescription' = OrDefault(db.description, "")
  /\ nodeNotes' = OrDefault(db.node_notes, EmptyMap)
  /\ nodeData' = OrDefault(db.node_data, EmptyMap)
  /\ mapLoaded' = TRUE
  /\ UNCHANGED <<editVars, selectedElements, currentUser, sessionVars, cursorVars,
                 timerVars, chan, modal, storeVars>>
  /\ Hist("loadMap",
          IF last.kind = "remount" /\ last.arg.stored THEN "stored" ELSE "",
          "local", 0, 0)

\* load, the fetch returned an error: load returns, nothing is set
loadFail ==
  /\ pc = "user"
  /\ pc' = "failed"
  /\ UNCHANGED <<graphVars, mapLoaded, selectedElements, editVars, currentUser, sessionVars, cursorVars,
                 timerVars, chan, modal, storeVars>>
  /\ Hist("loadFail", "", "local", 0, 0)

\* load, after the profile lookups: the postgres_changes subscription
subscribe ==
  /\ pc = "loaded"
  /\ pc' = "subscribed"
  /\ UNCHANGED <<graphVars, mapLoaded, selectedElements, editVars, currentUser, sessionVars, cursorVars,
                 timerVars, chan, modal, storeVars>>
  /\ Hist("subscribe", "", "local", 0, 0)

----------------------------------------------------------------------------
(* Canvas events *)

\* applyNodeChanges for one position change
applyNodeChanges(id, pos, nds) ==
  [i \in 1..Len(nds) |->
     IF nds[i].id = id THEN [nds[i] EXCEPT !.position = pos] ELSE nds[i]]

\* handleNodeChanges: ignored while a title is edited; otherwise the change
\* is applied and the 300 ms timer restarted with the updated node list
handleNodeChanges(id, pos) ==
  IF editingNodeId # NoNode
  THEN UNCHANGED <<nodes, saveTimeout>>
  ELSE /\ nodes' = applyNodeChanges(id, pos, nodes)
       /\ saveTimeout' =
            setTimeout(clearTimeout(saveTimeout),
                       [nodes |-> applyNodeChanges(id, pos, nodes),
                        edges |-> edges, cl |-> Closure])

\* handleNodeDrag: the dragged node's position is broadcast on the channel
handleNodeDragSends == chan /\ currentUser # NoUser

\* one step of a pointer drag of a rendered node: the canvas reports the
\* position change (onNodesChange) and then the drag (onNodeDrag)
NodeDrag(id, pos) ==
  /\ id \in NodeIdsOf(nodes)
  /\ saveTimeout # NoTimer \/ editingNodeId # NoNode \/ Room
  /\ handleNodeChanges(id, pos)
  /\ UNCHANGED <<edges, mapName, mapDescription, nodeNotes, nodeData,
                 mapLoaded, selectedElements, editVars, currentUser, sessionVars, cursorVars, dragSaveTimeout,
                 chan, modal, pc, storeVars>>
  /\ Hist("nodeDrag", id, IF editingNodeId = NoNode THEN "mutation" ELSE "local",
          0, IF handleNodeDragSends THEN 1 ELSE 0)

\* handleNodeDragStop: the 250 ms timer restarted; its callback reads the
\* node list when it runs, the edges and updateMapRow are those of now
handleNodeDragStop ==
  /\ nodes # <<>>
  /\ dragSaveTimeout # NoTimer \/ Room
  /\ dragSaveTimeout' = setTimeout(clearTimeout(dragSaveTimeout),
                                   [edges |-> edges, cl |-> Closure])
  /\ UNCHANGED <<graphVars, mapLoaded, selectedElements, editVars, currentUser, sessionVars, cursorVars,
                 saveTimeout, chan, modal, pc, storeVars>>
  /\ Hist("nodeDragStop", "",
          IF last.kind = "nodeDrag" /\ editingNodeId = NoNode THEN "dragstop"
          ELSE "local", 0, 0)

\* the 300 ms timer of handleNodeChanges fires
saveTimeoutFires ==
  /\ saveTimeout # NoTimer
  /\ updateMapRow(saveTimeout[1].nodes, saveTimeout[1].edges, saveTimeout[1].cl)
  /\ saveTimeout' = NoTimer
  /\ UNCHANGED <<graphVars, mapLoaded, selectedElements, editVars, currentUser, sessionVars, cursorVars,
                 dragSaveTimeout, chan, modal, pc, notifs, row>>
  /\ Hist("saveTimeout", "", "timer", Wrote, 0)

\* the 250 ms timer of handleNodeDragStop fires
dragSaveTimeoutFires ==
  /\ dragSaveTimeout # NoTimer
  /\ updateMapRow(nodes, dragSaveTimeout[1].edges, dragSaveTimeout[1].cl)
  /\ dragSaveTimeout' = NoTimer
  /\ UNCHANGED <<graphVars, mapLoaded, selectedElements, editVars, currentUser, sessionVars, cursorVars,
                 saveTimeout, chan, modal, pc, notifs, row>>
  /\ Hist("dragSaveTimeout", "", "timer", Wrote, 0)

----------------------------------------------------------------------------
(* Local edits *)

\* an identifier taken from the last node of the list instead of the largest
newNodeIdAfterLast(nds) ==
  toString(IF Len(nds) # 0 THEN parseInt(nds[Len(nds)].id) + 1 ELSE 1)

\* addNode, the identifier: one more than the largest parseInt(id), 1 for an
\* empty list
newNodeId(nds) ==
  LET maxId == IF Len(nds) # 0 THEN JsMax([i \in 1..Len(nds) |-> parseInt(nds[i].id)])
               ELSE 0
  IN  toString(IF maxId = NaN THEN NaN ELSE maxId + 1)

\* addNode: the new node is appended and the row written at once
addNode(position) ==
  /\ Len(nodes) < MaxNodes
  /\ \A i \in 1..Len(nodes) : parseInt(nodes[i].id) < MaxId
  /\ CanWrite
  /\ LET id == newNodeId(nodes)
         updated == Append(nodes, MkNode(id, "Node " \o id, position, FALSE))
     IN  /\ nodes' = updated
         /\ updateMapRow(updated, edges, Closure)
         /\ Hist("addNode", id, "mutation", Wrote, 0)
  /\ UNCHANGED <<edges, mapName, mapDescription, nodeNotes, nodeData,
                 mapLoaded, selectedElements, editVars, currentUser, sessionVars, cursorVars, timerVars, chan,
                 modal, pc, notifs, row>>

\* applyEdgeChanges for one remove change
applyEdgeChanges(id, eds) == SelectSeq(eds, LAMBDA e : e.id # id)

\* handleEdgeChanges: the change is applied and the row written at once
handleEdgeChanges(id) ==
  /\ id \in {edges[i].id : i \in 1..Len(edges)}
  /\ CanWrite
  /\ edges' = applyEdgeChanges(id, edges)
  /\ updateMapRow(nodes, applyEdgeChanges(id, edges), Closure)
  /\ UNCHANGED <<nodes, mapName, mapDescription, nodeNotes, nodeData,
                 mapLoaded, selectedElements, editVars, currentUser, sessionVars, cursorVars, timerVars, chan,
                 modal, pc, notifs, row>>
  /\ Hist("edgeChanges", id, "mutation", Wrote, 0)

\* onConnect: the edge-style dialog opens; its buttons close over the node
\* list and updateMapRow of this render
onConnect(src, tgt) ==
  /\ modal = None
  /\ Room
  /\ src \in NodeIdsOf(nodes)
  /\ tgt \in NodeIdsOf(nodes)
  /\ src # tgt
  /\ modal' = Some([source |-> src, target |-> tgt, nodes |-> nodes,
                    cl |-> Closure])
  /\ UNCHANGED <<graphVars, mapLoaded, selectedElements, editVars, currentUser, sessionVars, cursorVars,
                 timerVars, chan, pc, storeVars>>
  /\ Hist("onConnect", "", "local", 0, 0)

\* addEdge of reactflow: no second edge for a connection that exists
addEdge(e, eds) ==
  IF \E i \in 1..Len(eds) : eds[i].source = e.source /\ eds[i].target = e.target
  THEN eds
  ELSE Append(eds, e)

\* a button of the edge-style dialog: the edge is added to the current edge
\* list and the row written with the dialog's node list
chooseEdgeStyle(kind) ==
  /\ modal # None
  /\ LET updated == addEdge(MkEdge(modal[1].source, modal[1].target, kind), edges)
     IN  /\ edges' = updated
         /\ updateMapRow(modal[1].nodes, updated, modal[1].cl)
  /\ modal' = None
  /\ UNCHANGED <<nodes, mapName, mapDescription, nodeNotes, nodeData,
                 mapLoaded, selectedElements, editVars, currentUser, sessionVars, cursorVars, timerVars, chan,
                 pc, notifs, row>>
  /\ Hist("chooseEdgeStyle", kind, "mutation", Wrote, 0)

----------------------------------------------------------------------------
(* Buffered title edit *)

\* renderNode: a title input is rendered for every node whose isEditing
\* flag is set
InputShown(id) == \E i \in 1..Len(nodes) : nodes[i].id = id /\ nodes[i].isEditing

\* getNodeTitle of the rendered node id
getNodeTitle(id) == (CHOOSE n \in Range(nodes) : n.id = id).title

\* onNodeDoubleClick: the title is captured into the buffer and the node
\* flagged.  An open input has the focus and loses it (and commits) before
\* another node can be double-clicked
onNodeDoubleClick(id) ==
  /\ id \in NodeIdsOf(nodes)
  /\ \A i \in 1..Len(nodes) : ~nodes[i].isEditing
  /\ editingNodeId' = id
  /\ pendingLabel' = getNodeTitle(id)
  /\ nodes' = [i \in 1..Len(nodes) |->
                 IF nodes[i].id = id THEN [nodes[i] EXCEPT !.isEditing = TRUE]
                 ELSE nodes[i]]
  /\ UNCHANGED <<edges, mapName, mapDescription, nodeNotes, nodeData,
                 mapLoaded, selectedElements, currentUser, sessionVars, cursorVars, timerVars, chan, modal, pc,
                 storeVars>>
  /\ Hist("doubleClick", id, "local", 0, 0)

\* an unbuffered title input: the keystroke goes into the node's title
handleLabelTypingUnbuffered(v) ==
  /\ \E i \in 1..Len(nodes) : nodes[i].isEditing
  /\ pendingLabel' = v
  /\ nodes' = [i \in 1..Len(nodes) |->
                 IF nodes[i].isEditing THEN [nodes[i] EXCEPT !.title = v]
                 ELSE nodes[i]]
  /\ UNCHANGED <<edges, mapName, mapDescription, nodeNotes, nodeData,
                 mapLoaded, selectedElements, editingNodeId, currentUser, sessionVars, cursorVars, timerVars,
                 chan, modal, pc, storeVars>>
  /\ Hist("labelTyping", v, "local", 0, 0)

\* handleLabelTyping: a keystroke in a rendered title input
handleLabelTyping(v) ==
  /\ \E i \in 1..Len(nodes) : nodes[i].isEditing
  /\ pendingLabel' = v
  /\ UNCHANGED <<graphVars, mapLoaded, selectedElements, editingNodeId, currentUser, sessionVars, cursorVars,
                 timerVars, chan, modal, pc, storeVars>>
  /\ Hist("labelTyping", v, "local", 0, 0)

\* a setNodeTitle that leaves the edit flag
setNodeTitleKeepFlag(node, nextTitle) == [node EXCEPT !.title = nextTitle]

\* setNodeTitle
setNodeTitle(node, nextTitle) ==
  [node EXCEPT !.title = nextTitle, !.isEditing = FALSE]

\* commitLabel
commitLabel ==
  IF editingNodeId = NoNode
  THEN UNCHANGED <<nodes, editingNodeId, inflight>>
  ELSE LET updated == [i \in 1..Len(nodes) |->
                         IF nodes[i].id = editingNodeId
                         THEN setNodeTitle(nodes[i], pendingLabel)
                         ELSE nodes[i]]
       IN  /\ nodes' = updated
           /\ updateMapRow(updated, edges, Closure)
           /\ editingNodeId' = NoNode

\* what a commit leaves alone
commitFrame ==
  UNCHANGED <<edges, mapName, mapDescription, nodeNotes, nodeData, mapLoaded, selectedElements,
              pendingLabel, currentUser, sessionVars, cursorVars, timerVars, chan, modal, pc,
              notifs, row>>

CommitClass == IF editingNodeId # NoNode THEN "mutation" ELSE "local"

\* onBlur of the title input rendered for node id
inputBlur(id) ==
  /\ InputShown(id)
  /\ CanWrite
  /\ commitLabel
  /\ commitFrame
  /\ Hist("inputBlur", id, CommitClass, Wrote, 0)

\* onKeyDown with Enter in the title input rendered for node id
inputEnter(id) ==
  /\ InputShown(id)
  /\ CanWrite
  /\ commitLabel
  /\ commitFrame
  /\ Hist("inputEnter", id, CommitClass, Wrote, 0)

\* the blur of the input that Enter has just closed
inputBlurAfterEnter ==
  /\ last.kind = "inputEnter"
  /\ ~InputShown(last.arg)
  /\ CanWrite
  /\ commitLabel
  /\ commitFrame
  /\ Hist("blurAfterEnter", last.arg, CommitClass, Wrote, 0)

----------------------------------------------------------------------------
(* The store and its change notifications *)

\* the row changed: a notification for every subscriber
Notified(doc) ==
  IF pc = "subscribed" THEN notifs' = Append(notifs, doc) ELSE UNCHANGED notifs


\* the store completes the oldest update request of the participant
storeApply ==
  /\ inflight # <<>>
  /\ inflight' = Tail(inflight)
  /\ row' = Head(inflight)
  /\ Notified(Head(inflight))
  /\ UNCHANGED <<graphVars, mapLoaded, selectedElements, editVars, currentUser, sessionVars, cursorVars,
                 timerVars, chan, modal, pc>>
  /\ Hist("storeApply", "", "env", 0, 0)

\* another writer updates the row
peerWrite(doc) ==
  /\ pc = "subscribed" => Room
  /\ row' = doc
  /\ Notified(doc)
  /\ UNCHANGED <<graphVars, mapLoaded, selectedElements, editVars, currentUser, sessionVars, cursorVars,
                 timerVars, chan, modal, pc, inflight>>
  /\ Hist("peerWrite", "", "env", 0, 0)

\* a handler that keeps the node list when the row has none
applyMapRowKeepNodes(m2) ==
  /\ nodes' = OrDefault(m2.nodes, nodes)
  /\ edges' = OrDefault(m2.edges, <<>>)
  /\ mapName' = OrDefault(m2.name, "")
  /\ mapDescription' = OrDefault(m2.description, "")
  /\ nodeNotes' = OrDefault(m2.node_notes, EmptyMap)
  /\ nodeData' = OrDefault(m2.node_data, EmptyMap)

\* the postgres_changes UPDATE handler: every field replaced by the
\* notified row's, empty when null
applyMapRow(m2) ==
  /\ nodes' = OrDefault(m2.nodes, <<>>)
  /\ edges' = OrDefault(m2.edges, <<>>)
  /\ mapName' = OrDefault(m2.name, "")
  /\ mapDescription' = OrDefault(m2.description, "")
  /\ nodeNotes' = OrDefault(m2.node_notes, EmptyMap)
  /\ nodeData' = OrDefault(m2.node_data, EmptyMap)

\* a handler that also cancels the pending 300 ms timer
onMapUpdateCancels ==
  /\ notifs # <<>>
  /\ applyMapRow(Head(notifs))
  /\ notifs' = Tail(notifs)
  /\ saveTimeout' = clearTimeout(saveTimeout)
  /\ UNCHANGED <<mapLoaded, selectedElements, editVars, currentUser, sessionVars, cursorVars,
                 dragSaveTimeout, chan, modal, pc, inflight, row>>
  /\ Hist("mapUpdate", mapId, "env", 0, 0)

\* a change notification is delivered to the handler
onMapUpdate ==
  /\ notifs # <<>>
  /\ applyMapRow(Head(notifs))
  /\ notifs' = Tail(notifs)
  /\ UNCHANGED <<mapLoaded, selectedElements, editVars, currentUser, sessionVars, cursorVars, timerVars, chan,
                 modal, pc, inflight, row>>
  /\ Hist("mapUpdate", mapId, "env", 0, 0)

\* the component is given another map id while it is idle: the cleanup of
\* the load effect only clears its `mounted` flag, so the subscription of
\* the map left stays open, the state is kept, and the load effect runs again
changeMap(id, db) ==
  /\ id # mapId
  /\ pc \in {"loaded", "subscribed"}
  /\ inflight = <<>> /\ notifs = <<>> /\ modal = None
  /\ saveTimeout = NoTimer /\ dragSaveTimeout = NoTimer
  /\ mapId' = id
  /\ staleChannels' = IF pc = "subscribed" THEN staleChannels \cup {mapId}
                      ELSE staleChannels
  /\ pc' = "start"
  /\ row' = db
  /\ UNCHANGED <<graphVars, mapLoaded, selectedElements, editVars, currentUser,
                 cursorVars, timerVars, chan, modal, inflight, notifs>>
  /\ Hist("changeMap", id, "local", 0, 0)

\* a peer writes the row of a map whose subscription was left open, and the
\* change notification is delivered to that subscription's handler
onStaleMapUpdate(channel, doc) ==
  /\ channel \in staleChannels
  /\ applyMapRow(doc)
  /\ UNCHANGED <<mapLoaded, selectedElements, editVars, currentUser, sessionVars,
                 cursorVars, timerVars, chan, modal, pc, storeVars>>
  /\ Hist("mapUpdate", channel, "env", 0, 0)

----------------------------------------------------------------------------
(* Inbound broadcasts *)

\* a 'node-move' handler that adds the node when the list does not have it
onNodeMoveUpserts(userId, nodeId, pos) ==
  IF nodeId = "" \/ (currentUser # NoUser /\ userId = currentUser)
  THEN UNCHANGED nodes
  ELSE IF nodeId \in NodeIdsOf(nodes)
       THEN nodes' = [i \in 1..Len(nodes) |->
                        IF nodes[i].id = nodeId
                        THEN [nodes[i] EXCEPT !.position = pos]
                        ELSE nodes[i]]
       ELSE nodes' = Append(nodes, MkNode(nodeId, "", pos, FALSE))

\* the 'node-move' broadcast handler
onNodeMove(userId, nodeId, pos) ==
  IF nodeId = "" \/ (currentUser # NoUser /\ userId = currentUser)
  THEN UNCHANGED nodes
  ELSE nodes' = [i \in 1..Len(nodes) |->
                   IF nodes[i].id = nodeId
                   THEN [nodes[i] EXCEPT !.position = pos]
                   ELSE nodes[i]]

\* a 'node-move' broadcast is delivered
recvNodeMove(userId, nodeId, pos) ==
  /\ chan
  /\ onNodeMove(userId, nodeId, pos)
  /\ UNCHANGED <<edges, mapName, mapDescription, nodeNotes, nodeData,
                 mapLoaded, selectedElements, editVars, currentUser, sessionVars, cursorVars, timerVars, chan,
                 modal, pc, storeVars>>
  /\ Hist("nodeMove", userId, "env", 0, 0)

----------------------------------------------------------------------------
(* Cursor overlay *)

Without(m, k) == [x \in (DOMAIN m) \ {k} |-> m[x]]

\* a 'cursor' handler without the check for the participant's own id
onCursorAnyone(userId, pos) ==
  IF userId = "" \/ ~showOthersCursors
  THEN UNCHANGED cursors
  ELSE cursors' = Put(cursors, userId, pos)

\* a 'cursor' handler that does not look at the "Show others' cursors" ref
onCursorUngated(userId, pos) ==
  IF userId = "" \/ userId = currentUser
  THEN UNCHANGED cursors
  ELSE cursors' = Put(cursors, userId, pos)

\* the 'cursor' broadcast handler
onCursor(userId, pos) ==
  IF userId = "" \/ userId = currentUser \/ ~showOthersCursors
  THEN UNCHANGED cursors
  ELSE cursors' = Put(cursors, userId, pos)

\* a 'cursor' broadcast is delivered
recvCursor(userId, pos) ==
  /\ chan
  /\ onCursor(userId, pos)
  /\ UNCHANGED <<graphVars, mapLoaded, selectedElements, editVars, currentUser, sessionVars,
                 presenceUsers, participants, showMyCursor,
                 showOthersCursors, cursorFps, sinceCursor, timerVars, chan,
                 modal, pc, storeVars>>
  /\ Hist("cursor", userId, "env", 0, 0)

\* Math.max(5, Math.min(60, cursorFps))
ClampFps(fps) ==
  LET lo == IF fps < MaxFps THEN fps ELSE MaxFps
  IN  IF lo > MinFps THEN lo ELSE MinFps

\* a limiter with half the interval
TooSoonHalf(since, fps) == 2 * since * ClampFps(fps) < Second

\* now - lastCursorSentRef.current < 1000 / fps, in whole milliseconds
TooSoon(since, fps) == since * ClampFps(fps) < Second

\* the pointer-move passes the early returns of handlePaneMouseMove
PaneMoveAllowed == currentUser # NoUser /\ ~TooSoon(sinceCursor, cursorFps)

\* a handler that broadcasts only while "Show my cursor" is on
CursorSentIfShown == PaneMoveAllowed /\ chan /\ showMyCursor

\* handlePaneMouseMove sends a 'cursor' broadcast, with the participant's id
\* as userId: the move passed the early returns and the channel exists
CursorSent == PaneMoveAllowed /\ chan

\* a handler that stamps the time of a pointer-move the limiter rejects
handlePaneMouseMoveStamps(pos) ==
  IF currentUser = NoUser
  THEN UNCHANGED <<cursors, sinceCursor>>
  ELSE /\ sinceCursor' = 0
       /\ cursors' = IF TooSoon(sinceCursor, cursorFps) THEN cursors
                     ELSE IF showMyCursor THEN Put(cursors, currentUser, pos)
                     ELSE Without(cursors, currentUser)

\* handlePaneMouseMove
handlePaneMouseMove(pos) ==
  IF ~PaneMoveAllowed
  THEN UNCHANGED <<cursors, sinceCursor>>
  ELSE /\ sinceCursor' = 0
       /\ cursors' = IF showMyCursor THEN Put(cursors, currentUser, pos)
                     ELSE Without(cursors, currentUser)

\* a pointer-move over the pane.  starts marks the first move of a stream of
\* moves that a signed-in participant makes, one per millisecond for one
\* second
paneMouseMove(pos, starts) ==
  /\ winElapsed # NoStream => (~winMoved /\ ~starts)
  /\ starts => currentUser # NoUser
  /\ handlePaneMouseMove(pos)
  /\ winElapsed' = IF winElapsed # NoStream THEN winElapsed
                   ELSE IF starts THEN 0 ELSE NoStream
  /\ winMoved' = (winElapsed' # NoStream)
  /\ winAllowed' = IF winElapsed' = NoStream THEN 0
                   ELSE winAllowed + B2N(PaneMoveAllowed)
  /\ UNCHANGED <<graphVars, mapLoaded, selectedElements, editVars, currentUser, sessionVars,
                 presenceUsers, participants, showMyCursor,
                 showOthersCursors, cursorFps, timerVars, chan, modal, pc,
                 storeVars>>
  /\ Track("paneMove", IF CursorSent THEN currentUser ELSE "", "local", 0,
           B2N(CursorSent))

\* one millisecond passes; within a stream, after the move of this millisecond
tick ==
  /\ winElapsed # NoStream => winMoved
  /\ sinceCursor' = Min(MaxSince, sinceCursor + 1)
  /\ winElapsed' = IF winElapsed = NoStream \/ winElapsed = Second THEN NoStream
                   ELSE winElapsed + 1
  /\ winMoved' = FALSE
  /\ winAllowed' = IF winElapsed' = NoStream THEN 0 ELSE winAllowed
  /\ UNCHANGED <<graphVars, mapLoaded, selectedElements, editVars, currentUser, sessionVars,
                 presenceUsers, participants, cursors,
                 showMyCursor, showOthersCursors, cursorFps, timerVars, chan,
                 modal, pc, storeVars>>
  /\ Track("tick", "", "env", 0, 0)

\* the Cursor FPS slider; the pointer is on the slider, not on the pane
setCursorFps(v) ==
  /\ winElapsed = NoStream
  /\ cursorFps' = v
  /\ UNCHANGED <<graphVars, mapLoaded, selectedElements, editVars, currentUser, sessionVars,
                 presenceUsers, participants, cursors,
                 showMyCursor, showOthersCursors, sinceCursor, timerVars, chan,
                 modal, pc, storeVars>>
  /\ Hist("setCursorFps", "", "local", 0, 0)

\* the "Show my cursor" checkbox
setShowMyCursor(b) ==
  /\ showMyCursor' = b
  /\ UNCHANGED <<graphVars, mapLoaded, selectedElements, editVars, currentUser, sessionVars,
                 presenceUsers, participants, cursors,
                 showOthersCursors, cursorFps, sinceCursor, timerVars, chan,
                 modal, pc, storeVars>>
  /\ Hist("setShowMyCursor", "", "local", 0, 0)

\* an overlay that draws every entry
RenderedAll == DOMAIN cursors

\* the cursors the overlay draws: the entries of the cursors state, the
\* participant's own left out when "Show my cursor" is off, the others'
\* when "Show others' cursors" is off
Rendered ==
  {id \in DOMAIN cursors :
     /\ ~(~showMyCursor /\ currentUser = id)
     /\ ~(~showOthersCursors /\ currentUser # id)}

\* what the history keeps of a switch of "Show others' cursors": whether the
\* overlay held an entry of another participant
OthersShown ==
  IF \E k \in DOMAIN cursors : k # currentUser THEN "others" ELSE ""

\* a switch that keeps every entry of the overlay
setShowOthersCursorsOnly(b) ==
  /\ showOthersCursors' = b
  /\ UNCHANGED <<graphVars, mapLoaded, selectedElements, editVars, currentUser, sessionVars,
                 presenceUsers, participants, cursors,
                 showMyCursor, cursorFps, sinceCursor, timerVars, chan, modal,
                 pc, storeVars>>
  /\ Hist("setShowOthersCursors", OthersShown, "local", 0, 0)

\* the "Show others' cursors" checkbox, with the effect that drops every
\* entry but the participant's own when it is switched off
setShowOthersCursors(b) ==
  /\ showOthersCursors' = b
  /\ cursors' = IF b THEN cursors
                ELSE IF currentUser # NoUser /\ currentUser \in DOMAIN cursors
                     THEN Put(EmptyMap, currentUser, cursors[currentUser])
                     ELSE EmptyMap
  /\ UNCHANGED <<graphVars, mapLoaded, selectedElements, editVars, currentUser, sessionVars,
                 presenceUsers, participants, showMyCursor,
                 cursorFps, sinceCursor, timerVars, chan, modal, pc, storeVars>>
  /\ Hist("setShowOthersCursors", OthersShown, "local", 0, 0)

----------------------------------------------------------------------------
(* Selection and delete *)

\* onSelectionChange: the identifiers of the elements when the canvas hands
\* over an array, none otherwise
onSelectionChange(isArray, ids) ==
  /\ selectedElements' = IF isArray THEN ids ELSE {}
  /\ UNCHANGED <<graphVars, mapLoaded, editVars, currentUser, sessionVars, cursorVars,
                 timerVars, chan, modal, pc, storeVars>>
  /\ Hist("selectionChange", "", "local", 0, 0)

\* onDelete: the nodes and the edges that are not selected
remainingNodes == SelectSeq(nodes, LAMBDA n : n.id \notin selectedElements)
remainingEdges == SelectSeq(edges, LAMBDA e : e.id \notin selectedElements)

\* onDelete (the Delete or Backspace key): the selected elements are
\* removed, the selection emptied and the row written at once
onDelete ==
  /\ CanWrite
  /\ nodes' = remainingNodes
  /\ edges' = remainingEdges
  /\ selectedElements' = {}
  /\ updateMapRow(remainingNodes, remainingEdges, Closure)
  /\ UNCHANGED <<mapName, mapDescription, nodeNotes, nodeData, mapLoaded,
                 editVars, currentUser, sessionVars, cursorVars, timerVars, chan, modal, pc,
                 notifs, row>>
  /\ Hist("delete", "", "mutation", Wrote, 0)

----------------------------------------------------------------------------
(* Text fields of the side panel *)

\* what is typed into a text field of the side panel
Texts == {"t"}

\* handleNoteChange: a keystroke in the note of the selected node
handleNoteChange(id, v) ==
  /\ id \in NodeIdsOf(nodes)
  /\ nodeNotes' = Put(nodeNotes, id, v)
  /\ UNCHANGED <<nodes, edges, mapName, mapDescription, nodeData, mapLoaded,
                 selectedElements, editVars, currentUser, sessionVars, cursorVars, timerVars,
                 chan, modal, pc, storeVars>>
  /\ Hist("noteChange", id, "local", 0, 0)

\* handleLinkChange: a keystroke in the link of the selected node
handleLinkChange(id, link) ==
  /\ id \in NodeIdsOf(nodes)
  /\ nodeData' = Put(nodeData, id, link)
  /\ UNCHANGED <<nodes, edges, mapName, mapDescription, nodeNotes, mapLoaded,
                 selectedElements, editVars, currentUser, sessionVars, cursorVars, timerVars,
                 chan, modal, pc, storeVars>>
  /\ Hist("linkChange", id, "local", 0, 0)

\* onChange of the map name
mapNameChange(v) ==
  /\ mapName' = v
  /\ UNCHANGED <<nodes, edges, mapDescription, nodeNotes, nodeData, mapLoaded,
                 selectedElements, editVars, currentUser, sessionVars, cursorVars, timerVars,
                 chan, modal, pc, storeVars>>
  /\ Hist("mapNameChange", v, "local", 0, 0)

\* onChange of the map description
mapDescriptionChange(v) ==
  /\ mapDescription' = v
  /\ UNCHANGED <<nodes, edges, mapName, nodeNotes, nodeData, mapLoaded,
                 selectedElements, editVars, currentUser, sessionVars, cursorVars, timerVars,
                 chan, modal, pc, storeVars>>
  /\ Hist("mapDescriptionChange", v, "local", 0, 0)

\* onBlur of the note, the link, the map name or the map description:
\* updateMapRow(nodes, edges).  The note and the link need a selected node
FieldsBlurred == {"note", "link", "name", "description"}
fieldBlur(field) ==
  /\ field \in {"note", "link"} => nodes # <<>>
  /\ CanWrite
  /\ updateMapRow(nodes, edges, Closure)
  /\ UNCHANGED <<graphVars, mapLoaded, selectedElements, editVars, currentUser, sessionVars,
                 cursorVars, timerVars, chan, modal, pc, notifs, row>>
  /\ Hist("fieldBlur", field, "mutation", Wrote, 0)

\* {...edge, label: v}
withLabel(edge, v) ==
  [k \in DOMAIN edge \cup {"label"} |-> IF k = "label" THEN v ELSE edge[k]]

\* onChange of the label of the selected edge: the edge list is replaced
\* and the row written
edgeLabelChange(id, v) ==
  /\ \E i \in 1..Len(edges) : edges[i].id = id
  /\ CanWrite
  /\ LET updated == [i \in 1..Len(edges) |->
                       IF edges[i].id = id THEN withLabel(edges[i], v)
                       ELSE edges[i]]
     IN  /\ edges' = updated
         /\ updateMapRow(nodes, updated, Closure)
  /\ UNCHANGED <<nodes, mapName, mapDescription, nodeNotes, nodeData, mapLoaded,
                 selectedElements, editVars, currentUser, sessionVars, cursorVars, timerVars,
                 chan, modal, pc, notifs, row>>
  /\ Hist("edgeLabelChange", id, "mutation", Wrote, 0)

----------------------------------------------------------------------------
(* Presence and failed writes *)

\* what a participant tracks on the channel: its identifier and its username
Usernames == {"ann", "bob"}
Meta(userId, username) == [userId |-> userId, username |-> username]

\* the channel's presence state: for each presence key the list of what the
\* connections of that key track; each client tracks its own identifier
\* under its own identifier as key
MetaLists(k) ==
  {<<Meta(k, n)>> : n \in Usernames}
    \cup {<<Meta(k, n1), Meta(k, n2)>> : n1 \in Usernames, n2 \in Usernames}
PresenceStates ==
  UNION {{st \in [K -> UNION {MetaLists(k) : k \in K}] :
             \A k \in K : st[k] \in MetaLists(k)} : K \in SUBSET UserIds}

\* a presence state in which each of `users` has one connection
OneEach(users) == [k \in users |-> <<Meta(k, "ann")>>]

\* Object.values(state), then each list in order
RECURSIVE flatValues(_, _)
flatValues(state, keys) ==
  IF keys = {} THEN <<>>
  ELSE LET k == CHOOSE x \in keys : TRUE
       IN  state[k] \o flatValues(state, keys \ {k})

\* metas.forEach(m => obj[m.userId] = m)
RECURSIVE assignAll(_, _)
assignAll(obj, metas) ==
  IF metas = <<>> THEN obj
  ELSE assignAll(Put(obj, Head(metas).userId, Head(metas)), Tail(metas))

\* a roster that keeps the entries it had and adds those of the sync
rosterKept(prev, metas) == assignAll(prev, metas)

\* the roster of a sync: built on an empty object, whatever the roster was
rosterOf(prev, metas) == assignAll(EmptyMap, metas)

\* prev.map(p => ({...p, online: !!next[p.id]}))
reflectOnline(prev, next) ==
  [i \in 1..Len(prev) |-> [prev[i] EXCEPT !.online = prev[i].id \in DOMAIN next]]

\* the participants panel: a status taken from the entry's own online flag
StatusShownFlag(p) == IF p.online THEN "online" ELSE "offline"

\* the participants panel: presenceUsers[p.id] ? "online" : "offline"
StatusShown(p) == IF p.id \in DOMAIN presenceUsers THEN "online" ELSE "offline"

\* presence 'sync': the roster is rebuilt from the channel's presence state
\* and the participants' online flags follow it
presenceSync(state) ==
  /\ chan
  /\ LET next == rosterOf(presenceUsers, flatValues(state, DOMAIN state))
     IN  /\ presenceUsers' = next
         /\ participants' = reflectOnline(participants, next)
  /\ UNCHANGED <<graphVars, mapLoaded, selectedElements, editVars, currentUser, sessionVars, cursors,
                 showMyCursor, showOthersCursors, cursorFps, sinceCursor,
                 timerVars, chan, modal, pc, storeVars>>
  /\ Hist("presenceSync", state, "env", 0, 0)

\* the profiles of the map's participants, in the order the query returns them
RECURSIVE profiles(_)
profiles(ids) ==
  IF ids = {} THEN <<>>
  ELSE LET p == CHOOSE x \in ids : TRUE
       IN  <<p>> \o profiles(ids \ {p})

\* refreshParticipants, the list it sets: one entry per participant of the
\* map, its online flag taken from the map_presence view
refreshList(ids, onlineMap) ==
  LET profs == profiles(ids)
  IN  [i \in 1..Len(profs) |->
         [id |-> profs[i],
          online |-> IF profs[i] \in DOMAIN onlineMap THEN onlineMap[profs[i]]
                     ELSE FALSE]]

\* refreshParticipants: run by load before it subscribes, and again at each
\* change notification of map_participants
refreshParticipants(ids, onlineMap) ==
  /\ pc \in {"loaded", "subscribed"}
  /\ participants' = IF ids = {} THEN <<>> ELSE refreshList(ids, onlineMap)
  /\ UNCHANGED <<graphVars, mapLoaded, selectedElements, editVars, currentUser, sessionVars, cursors,
                 showMyCursor, showOthersCursors, cursorFps, sinceCursor,
                 presenceUsers, timerVars, chan, modal, pc, storeVars>>
  /\ Hist("refreshParticipants", "", "env", 0, 0)

\* a failed update request that is sent once more
storeFailRetry(how) ==
  /\ inflight # <<>>
  /\ inflight' = Append(Tail(inflight), Head(inflight))
  /\ UNCHANGED <<graphVars, mapLoaded, selectedElements, editVars, currentUser, sessionVars, cursorVars,
                 timerVars, chan, modal, pc, notifs, row>>
  /\ Hist("storeFail", how, "env", 0, 0)

\* the oldest update request fails: the store answers with an error
\* ("error") or the call throws ("throw"); updateMapRow logs either and
\* returns
storeFail(how) ==
  /\ inflight # <<>>
  /\ inflight' = Tail(inflight)
  /\ UNCHANGED <<graphVars, mapLoaded, selectedElements, editVars, currentUser, sessionVars, cursorVars,
                 timerVars, chan, modal, pc, notifs, row>>
  /\ Hist("storeFail", how, "env", 0, 0)

----------------------------------------------------------------------------
(* The stored form of the graph *)

\* Here a node, an edge or a style is a JavaScript object: a function from
\* its keys to None (the value undefined) or Some(value).

\* obj.k, undefined when the object has no such key
Get(obj, k) == IF k \in DOMAIN obj THEN obj[k] ELSE None

\* removeUndefined: the entries whose value is not undefined, one level deep
removeUndefined(obj) == [k \in {x \in DOMAIN obj : obj[x] # None} |-> obj[k]]

\* the keys whose values are objects themselves
ObjectKeys == {"style", "data"}

\* what JSON.stringify keeps of an object on its way to the store: no key of
\* an undefined value, at either depth
stringify(obj) ==
  [k \in {x \in DOMAIN obj : obj[x] # None} |->
     IF k \in ObjectKeys
     THEN Some([j \in {x \in DOMAIN obj[k][1] : obj[k][1][x] # None} |-> obj[k][1][j]])
     ELSE obj[k]]

DEFAULT_EDGE_STYLE ==
  [stroke |-> Some("#64748B"), strokeOpacity |-> Some("0.45"),
   strokeWidth |-> Some("2")]

\* the connection onConnect receives, with the id addEdge gives it
Connection(src, tgt) ==
  [id |-> Some("reactflow__edge-" \o src \o "-" \o tgt), source |-> Some(src),
   target |-> Some(tgt)]

\* the three edges the buttons of the edge-style dialog create
ArrowEdge(src, tgt) ==
  Put(Put(Connection(src, tgt), "markerEnd", Some("arrowclosed")),
      "style", Some(DEFAULT_EDGE_STYLE))
DashedEdge(src, tgt) ==
  Put(Connection(src, tgt), "style",
      Some(Put(DEFAULT_EDGE_STYLE, "strokeDasharray", Some("5,5"))))
PlainEdge(src, tgt) ==
  Put(Connection(src, tgt), "style", Some(DEFAULT_EDGE_STYLE))

\* the Solid, Dashed and Arrow buttons of the edge settings panel
EdgeTypes == {"solid", "dashed", "arrow"}
withEdgeType(edge, type) ==
  IF type = "solid"
  THEN Put(Put(edge, "style", Some([strokeDasharray |-> None])), "markerEnd", None)
  ELSE IF type = "dashed"
  THEN Put(Put(edge, "style", Some([strokeDasharray |-> Some("5,5")])),
           "markerEnd", None)
  ELSE Put(Put(edge, "markerEnd", Some("arrowclosed")),
           "style", Some([strokeDasharray |-> None]))

\* the node addNode creates, and the same node in and after a title edit
NewNode(id) ==
  [id |-> Some(id), data |-> Some([title |-> Some("Node " \o id)]),
   position |-> Some(P10), style |-> Some([border |-> Some("2px solid #000")]),
   creator |-> Some(Me), creationTimestamp |-> Some("t")]
EditedNode(id, editing) ==
  Put(NewNode(id), "data",
      Some([title |-> Some("Node " \o id), isEditing |-> Some(editing)]))

\* an edge as updateMapRow stores it with every style replaced by {}
filteredEdgeBare(e) == removeUndefined(Put(e, "style", Some(EmptyMap)))

\* an edge as updateMapRow stores it: removeUndefined({...e, style: e.style || {}})
filteredEdge(e) ==
  removeUndefined(Put(e, "style",
                      IF Get(e, "style") = None THEN Some(EmptyMap) ELSE e.style))

\* the payload updateMapRow builds from graphs of JavaScript objects
filteredPayload(newNodes, newEdges, cl) ==
  removeUndefined(
    MkDoc(Some([i \in 1..Len(newNodes) |-> removeUndefined(newNodes[i])]),
          Some([i \in 1..Len(newEdges) |-> filteredEdge(newEdges[i])]),
          Some(IF cl.name = "" THEN "Untitled" ELSE cl.name),
          Some(cl.description), Some(removeUndefined(cl.notes)),
          Some(removeUndefined(cl.data))))

\* the body of the update request that carries the payload
requestBody(payload) ==
  [payload EXCEPT
     !.nodes = Some([i \in 1..Len(payload.nodes[1]) |-> stringify(payload.nodes[1][i])]),
     !.edges = Some([i \in 1..Len(payload.edges[1]) |-> stringify(payload.edges[1][i])])]

\* updateMapRow(newNodes, newEdges) for graphs of JavaScript objects
sendMapRow(newNodes, newEdges, cl) ==
  IF ~cl.loaded
  THEN UNCHANGED inflight
  ELSE inflight' = Append(inflight,
                          requestBody(filteredPayload(newNodes, newEdges, cl)))

\* rows this editor stored in earlier sessions
RowArrow ==
  requestBody(filteredPayload(<<NewNode("1"), EditedNode("2", FALSE)>>,
                              <<ArrowEdge("1", "2")>>,
                              [loaded |-> TRUE, name |-> "M", description |-> "",
                               notes |-> Put(EmptyMap, "1", Some("note")),
                               data |-> EmptyMap]))
RowDashed ==
  requestBody(filteredPayload(<<EditedNode("1", TRUE), NewNode("2")>>,
                              <<DashedEdge("1", "2"), PlainEdge("2", "1")>>,
                              [loaded |-> TRUE, name |-> "", description |-> "d",
                               notes |-> EmptyMap,
                               data |-> Put(EmptyMap, "2", Some("link"))]))
StoredRows == {NullDoc, RowArrow, RowDashed}

\* the state of the component after getUser, the store holding one of the rows
InitStored ==
  /\ nodes = <<>>
  /\ edges = <<>>
  /\ mapName = ""
  /\ mapDescription = ""
  /\ nodeNotes = EmptyMap
  /\ nodeData = EmptyMap
  /\ mapLoaded = FALSE
  /\ editingNodeId = NoNode
  /\ pendingLabel = ""
  /\ selectedElements = {}
  /\ currentUser = Me
  /\ cursors = EmptyMap
  /\ showMyCursor = TRUE
  /\ showOthersCursors = TRUE
  /\ cursorFps = DefaultFps
  /\ presenceUsers = EmptyMap
  /\ participants = <<>>
  /\ sinceCursor = MaxSince
  /\ saveTimeout = NoTimer
  /\ dragSaveTimeout = NoTimer
  /\ chan = TRUE
  /\ modal = None
  /\ pc = "user"
  /\ mapId = FirstMap
  /\ staleChannels = {}
  /\ inflight = <<>>
  /\ notifs = <<>>
  /\ row \in StoredRows
  /\ last = [kind |-> "init", arg |-> "", wrote |-> 0, sent |-> 0]
  /\ burstWrites = 0
  /\ dragWrites = None
  /\ failedWrite = None
  /\ winElapsed = NoStream
  /\ winMoved = FALSE
  /\ winAllowed = 0

\* the graph the component holds
Graph == [nodes |-> nodes, edges |-> edges, notes |-> nodeNotes, data |-> nodeData]

\* a type button of the edge settings panel, the edge with identifier id
\* selected: edges replaced, the row written at once
setEdgeType(id, type) ==
  /\ pc = "loaded"
  /\ inflight = <<>>
  /\ \E i \in 1..Len(edges) : edges[i].id = Some(id)
  /\ LET updated == [i \in 1..Len(edges) |->
                       IF edges[i].id = Some(id)
                       THEN withEdgeType(edges[i], type) ELSE edges[i]]
     IN  /\ edges' = updated
         /\ sendMapRow(nodes, updated, Closure)
  /\ UNCHANGED <<nodes, mapName, mapDescription, nodeNotes, nodeData,
                 mapLoaded, selectedElements, editVars, currentUser, sessionVars, cursorVars, timerVars, chan,
                 modal, pc, notifs, row>>
  /\ Hist("setEdgeType", type, "mutation", Wrote, 0)

\* the connection dialog's buttons on a graph of JavaScript objects
connectEdge(src, tgt, kind) ==
  /\ pc = "loaded"
  /\ inflight = <<>>
  /\ Len(edges) < MaxEdges
  /\ {Some(src), Some(tgt)} \subseteq {nodes[i].id : i \in 1..Len(nodes)}
  /\ LET e == IF kind = "arrow" THEN ArrowEdge(src, tgt)
              ELSE IF kind = "dashed" THEN DashedEdge(src, tgt)
              ELSE PlainEdge(src, tgt)
         updated == addEdge(e, edges)
     IN  /\ edges' = updated
         /\ sendMapRow(nodes, updated, Closure)
  /\ UNCHANGED <<nodes, mapName, mapDescription, nodeNotes, nodeData,
                 mapLoaded, selectedElements, editVars, currentUser, sessionVars, cursorVars, timerVars, chan,
                 modal, pc, notifs, row>>
  /\ Hist("connectEdge", kind, "mutation", Wrote, 0)

\* the page is loaded anew: a fresh component, the user fetched again.  The
\* history keeps the graph the old component held and whether the store had
\* just completed the write of that graph
remount ==
  /\ pc = "loaded"
  /\ inflight = <<>>
  /\ pc' = "user"
  /\ nodes' = <<>>
  /\ edges' = <<>>
  /\ mapName' = ""
  /\ mapDescription' = ""
  /\ nodeNotes' = EmptyMap
  /\ nodeData' = EmptyMap
  /\ mapLoaded' = FALSE
  /\ UNCHANGED <<editVars, selectedElements, currentUser, sessionVars, cursorVars,
                 timerVars, chan, modal, storeVars>>
  /\ Hist("remount", [graph |-> Graph, stored |-> last.kind = "storeApply"],
          "local", 0, 0)

----------------------------------------------------------------------------
(* Specifications *)

\* an editing session: the load effect, every local handler, the store
\* completing the participant's update requests and their notifications
Next ==
  \/ loadUser
  \/ loadMap(row)
  \/ loadFail
  \/ subscribe
  \/ \E id \in DragNodes, pos \in DragPositions : NodeDrag(id, pos)
  \/ handleNodeDragStop
  \/ saveTimeoutFires
  \/ dragSaveTimeoutFires
  \/ addNode(P10)
  \/ \E e \in Range(edges) : handleEdgeChanges(e.id)
  \/ \E src \in {"1"}, tgt \in {"2"} : onConnect(src, tgt)
  \/ \E kind \in EdgeKinds : chooseEdgeStyle(kind)
  \/ \E id \in EditNodes : onNodeDoubleClick(id)
  \/ \E v \in Labels : handleLabelTyping(v)
  \/ \E id \in NodeIdsOf(nodes) : inputBlur(id)
  \/ \E id \in NodeIdsOf(nodes) : inputEnter(id)
  \/ inputBlurAfterEnter
  \/ storeApply
  \/ onMapUpdate

Spec == Init /\ [][Next]_vars

\* a shared session: other writers update the row and peers drag nodes
\* while the participant drags and adds nodes
NextPeer ==
  \/ loadUser
  \/ loadMap(row)
  \/ loadFail
  \/ subscribe
  \/ \E id \in DragNodes, pos \in DragPositions : NodeDrag(id, pos)
  \/ handleNodeDragStop
  \/ saveTimeoutFires
  \/ dragSaveTimeoutFires
  \/ addNode(P10)
  \/ storeApply
  \/ \E doc \in PeerDocs : peerWrite(doc)
  \/ onMapUpdate
  \/ \E u \in UserIds, id \in DragNodes \cup {""}, pos \in PeerPositions :
       recvNodeMove(u, id, pos)

SpecPeer == Init /\ [][NextPeer]_vars

\* the cursor overlay: pointer moves, the settings, inbound broadcasts
NextCursor ==
  \/ loadUser
  \/ loadMap(row)
  \/ paneMouseMove(P10, FALSE)
  \/ tick
  \/ \E v \in FpsChoices : setCursorFps(v)
  \/ \E b \in BOOLEAN : setShowMyCursor(b)
  \/ \E b \in BOOLEAN : setShowOthersCursors(b)
  \/ \E u \in UserIds \cup {""}, pos \in PeerPositions : recvCursor(u, pos)
  \/ \E u \in UserIds, id \in DragNodes \cup {""}, pos \in PeerPositions :
       recvNodeMove(u, id, pos)

SpecCursor == Init /\ [][NextCursor]_vars

\* the rate limiter under streams of pointer moves
NextRate ==
  \/ loadUser
  \/ \E starts \in BOOLEAN : paneMouseMove(P10, starts)
  \/ tick
  \/ \E v \in FpsChoices : setCursorFps(v)

SpecRate == Init /\ [][NextRate]_vars

\* the round trip of the graph through the store: load, edge edits that
\* write, the store completing the write, a new page load
NextStore ==
  \/ loadMap(row)
  \/ \E id \in {"reactflow__edge-1-2", "reactflow__edge-2-1"}, t \in EdgeTypes :
       setEdgeType(id, t)
  \/ \E c \in {<<"1", "2">>, <<"2", "1">>}, k \in {"arrow", "dashed", "plain"} :
       connectEdge(c[1], c[2], k)
  \/ storeApply
  \/ remount

SpecStore == InitStored /\ [][NextStore]_vars


\* a title edit in a shared session: the participant edits a title while
\* peers drag nodes and other writers update the row
NextEdit ==
  \/ loadUser
  \/ loadMap(row)
  \/ subscribe
  \/ \E id \in EditNodes : onNodeDoubleClick(id)
  \/ \E v \in Labels : handleLabelTyping(v)
  \/ \E id \in NodeIdsOf(nodes) : inputBlur(id)
  \/ \E id \in DragNodes, pos \in DragPositions : NodeDrag(id, pos)
  \/ saveTimeoutFires
  \/ storeApply
  \/ \E doc \in PeerDocs : peerWrite(doc)
  \/ onMapUpdate
  \/ \E u \in UserIds, id \in DragNodes \cup {""}, pos \in PeerPositions :
       recvNodeMove(u, id, pos)

SpecEdit == Init /\ [][NextEdit]_vars

\* writes that fail: the participant adds nodes while cursors and presence
\* arrive, and the store completes or fails each update request
NextFail ==
  \/ loadUser
  \/ loadMap(row)
  \/ addNode(P10)
  \/ storeApply
  \/ \E how \in {"error", "throw"} : storeFail(how)
  \/ \E u \in UserIds, pos \in PeerPositions : recvCursor(u, pos)
  \/ \E users \in SUBSET UserIds : presenceSync(OneEach(users))

SpecFail == Init /\ [][NextFail]_vars

\* one participant alone on the map: it drags and adds nodes; its timers
\* fire, the store completes its update requests, the subscription becomes
\* active and change notifications are delivered, each eventually
NextLive ==
  \/ loadUser
  \/ loadMap(row)
  \/ subscribe
  \/ \E id \in DragNodes, pos \in DragPositions : NodeDrag(id, pos)
  \/ addNode(P10)
  \/ saveTimeoutFires
  \/ storeApply
  \/ onMapUpdate

SpecLive ==
  /\ Init
  /\ [][NextLive]_vars
  /\ WF_vars(loadUser)
  /\ WF_vars(loadMap(row))
  /\ WF_vars(subscribe)
  /\ WF_vars(saveTimeoutFires)
  /\ WF_vars(storeApply)
  /\ WF_vars(onMapUpdate)

\* several writers on the map: the participant adds nodes while other
\* writers update the row; the store completes the requests, the
\* subscription becomes active and notifications are delivered, each
\* eventually
NextShared ==
  \/ loadUser
  \/ loadMap(row)
  \/ subscribe
  \/ addNode(P10)
  \/ storeApply
  \/ \E doc \in PeerDocs : peerWrite(doc)
  \/ onMapUpdate

SpecShared ==
  /\ Init
  /\ [][NextShared]_vars
  /\ WF_vars(loadUser)
  /\ WF_vars(loadMap(row))
  /\ WF_vars(subscribe)
  /\ WF_vars(storeApply)
  /\ WF_vars(onMapUpdate)

\* addNode called twice from one render: both calls read the `nodes` of
\* their closure for the identifier, and the two updaters run in order on the
\* latest list, each writing the list it produced
addNodeTwice(position1, position2) ==
  /\ Len(nodes) + 2 <= MaxNodes
  /\ \A i \in 1..Len(nodes) : parseInt(nodes[i].id) < MaxId
  /\ Pending + 2 <= MaxPending
  /\ LET id1 == newNodeId(nodes)
         id2 == newNodeId(nodes)
         updated1 == Append(nodes, MkNode(id1, "Node " \o id1, position1, FALSE))
         updated2 == Append(updated1, MkNode(id2, "Node " \o id2, position2, FALSE))
     IN  /\ nodes' = updated2
         /\ IF ~Closure.loaded
            THEN UNCHANGED inflight
            ELSE inflight' = inflight \o <<Payload(updated1, edges, Closure),
                                            Payload(updated2, edges, Closure)>>
         /\ Hist("addNodeTwice", id2, "mutation", Wrote, 0)
  /\ UNCHANGED <<edges, mapName, mapDescription, nodeNotes, nodeData,
                 mapLoaded, selectedElements, editVars, currentUser, sessionVars, cursorVars, timerVars, chan,
                 modal, pc, notifs, row>>

\* the participants panel: presence syncs of the channel and refreshes of the
\* participant list from the durable tables
NextPresence ==
  \/ loadUser
  \/ loadMap(row)
  \/ subscribe
  \/ \E state \in PresenceStates : presenceSync(state)
  \/ \E ids \in SUBSET UserIds :
       \E shown \in SUBSET ids : \E onlineMap \in [shown -> BOOLEAN] :
         refreshParticipants(ids, onlineMap)

SpecPresence == Init /\ [][NextPresence]_vars

\* the text fields: the participant types into the title, the note, the
\* link, the map name, the map description and an edge label, and leaves
\* the fields, on a map a peer may have written before it was loaded, while
\* the store completes its update requests
NextText ==
  \/ loadUser
  \/ loadMap(row)
  \/ peerWrite(DocB)
  \/ \E id \in EditNodes : onNodeDoubleClick(id)
  \/ \E v \in Labels : handleLabelTyping(v)
  \/ \E id \in EditNodes : inputBlur(id)
  \/ \E id \in EditNodes, v \in Texts : handleNoteChange(id, v)
  \/ \E id \in EditNodes, v \in Texts : handleLinkChange(id, v)
  \/ \E v \in Texts : mapNameChange(v)
  \/ \E v \in Texts : mapDescriptionChange(v)
  \/ \E field \in FieldsBlurred : fieldBlur(field)
  \/ \E v \in Texts : edgeLabelChange("e1-2", v)
  \/ storeApply

SpecText == Init /\ [][NextText]_vars

\* writes that fail and the mutations that follow: the participant adds
\* nodes, connects them, writes notes and leaves the note field, while the
\* store completes or fails each update request and change notifications
\* are delivered
NextRetry ==
  \/ loadUser
  \/ loadMap(row)
  \/ subscribe
  \/ addNode(P10)
  \/ onConnect("1", "2")
  \/ chooseEdgeStyle("arrow")
  \/ \E v \in Texts : handleNoteChange("1", v)
  \/ fieldBlur("note")
  \/ storeApply
  \/ storeFail("error")
  \/ onMapUpdate

SpecRetry == Init /\ [][NextRetry]_vars

\* participants come and go: cursor broadcasts of the peers arrive, the
\* presence state of the channel changes, and the participant switches the
\* display of the others' cursors
NextLeave ==
  \/ loadUser
  \/ \E u \in UserIds, pos \in PeerPositions : recvCursor(u, pos)
  \/ \E state \in PresenceStates : presenceSync(state)
  \/ \E b \in BOOLEAN : setShowOthersCursors(b)

SpecLeave == Init /\ [][NextLeave]_vars

\* the component is switched between two maps: it loads and subscribes,
\* adds nodes, and peers write the rows of both maps
NextSession ==
  \/ loadUser
  \/ loadMap(row)
  \/ subscribe
  \/ \E id \in MapIds, db \in InitDocs : changeMap(id, db)
  \/ \E channel \in MapIds, doc \in PeerDocs : onStaleMapUpdate(channel, doc)
  \/ addNode(P10)
  \/ storeApply
  \/ \E doc \in PeerDocs : peerWrite(doc)
  \/ onMapUpdate

SpecSession == Init /\ [][NextSession]_vars

\* adding nodes, in one render or in two, with deletes and snapshots of the row
NextIds ==
  \/ loadUser
  \/ loadMap(row)
  \/ subscribe
  \/ addNode(P10)
  \/ addNodeTwice(P10, P10)
  \/ \E isArray \in BOOLEAN, ids \in SUBSET Selectable : onSelectionChange(isArray, ids)
  \/ onDelete
  \/ storeApply
  \/ \E doc \in PeerDocs : peerWrite(doc)
  \/ onMapUpdate

SpecIds == Init /\ [][NextIds]_vars

\* the structure of the graph: nodes and edges are added, selected and
\* deleted
NextGraph ==
  \/ loadUser
  \/ loadMap(row)
  \/ addNode(P10)
  \/ \E src \in {"1"}, tgt \in {"2"} : onConnect(src, tgt)
  \/ \E kind \in EdgeKinds : chooseEdgeStyle(kind)
  \/ \E e \in Range(edges) : handleEdgeChanges(e.id)
  \/ \E isArray \in BOOLEAN, ids \in SUBSET Selectable :
       onSelectionChange(isArray, ids)
  \/ onDelete
  \/ storeApply

SpecGraph == Init /\ [][NextGraph]_vars

----------------------------------------------------------------------------
(* Properties *)

\* the payload of the update request issued last
LastPayload == inflight[Len(inflight)]

\* C1: the local mutations of one debounce window (a run of mutations with
\* no timer callback and no other local event in between) issue at most one
\* durable write between them.
C1_OneWritePerWindow == burstWrites <= 1

\* C2: the durable write performed by the 300 ms timer of handleNodeChanges
\* carries the nodes, edges, notes and node data the graph has when the
\* timer fires.
C2_TimerWritesLatest ==
  (last.kind = "saveTimeout" /\ last.wrote = 1) =>
    LastPayload = Payload(nodes, edges, Closure)

\* C3: after a drag of a node and the drag-stop, with no further local
\* event, the timers perform one durable write in total for the drag.
C3_OneWritePerDrag == dragWrites # None => dragWrites[1] <= 1

\* C4: an inbound 'cursor' or 'node-move' broadcast that carries the
\* participant's own id leaves the cursor overlay and the nodes as they are,
\* and the participant's own cursor entry is written by the pointer-move
\* handler only.
C4_SelfEchoIgnored ==
  [][/\ \A pos \in PeerPositions, id \in DragNodes \cup {""} :
          (recvCursor(currentUser, pos) \/ recvNodeMove(currentUser, id, pos))
            => (cursors' = cursors /\ nodes' = nodes)
     /\ (/\ currentUser \in DOMAIN cursors'
         /\ (currentUser \in DOMAIN cursors
               => cursors'[currentUser] # cursors[currentUser]))
          => last'.kind = "paneMove"]_vars

\* an own 'cursor' broadcast has been delivered while others' cursors are
\* shown and the participant's own is not drawn
C4_Witness ==
  /\ last.kind = "cursor"
  /\ last.arg = currentUser
  /\ showOthersCursors
  /\ currentUser \notin DOMAIN cursors
  /\ nodes # <<>>

\* C5: a change notification replaces nodes, edges, name, description, notes
\* and node data by the notified row's fields, the empty value for a null
\* field, whatever the graph held before.
C5_WholesaleReplace ==
  [][onMapUpdate =>
       LET m2 == Head(notifs)
       IN  /\ nodes' = IF m2.nodes = None THEN <<>> ELSE m2.nodes[1]
           /\ edges' = IF m2.edges = None THEN <<>> ELSE m2.edges[1]
           /\ mapName' = IF m2.name = None THEN "" ELSE m2.name[1]
           /\ mapDescription' =
                IF m2.description = None THEN "" ELSE m2.description[1]
           /\ nodeNotes' =
                IF m2.node_notes = None THEN EmptyMap ELSE m2.node_notes[1]
           /\ nodeData' =
                IF m2.node_data = None THEN EmptyMap ELSE m2.node_data[1]]_vars

\* a notification of a row with null graph columns has replaced a graph
\* that held a node whose move the 300 ms timer has yet to write
C5_Witness ==
  /\ last.kind = "mapUpdate"
  /\ nodes = <<>>
  /\ nodeNotes = EmptyMap
  /\ saveTimeout # NoTimer
  /\ saveTimeout[1].nodes # <<>>

\* C6: a position carried by a peer's 'node-move' broadcast appears in no
\* durable write of the participant (the participant drags nodes to
\* DragPositions only, the stored rows hold no peer position).
C6_PeerMoveNotPersisted ==
  \A i \in 1..Len(inflight) :
    \A n \in Range(inflight[i].nodes[1]) : n.position \notin PeerPositions

C8_RateLimited ==
  winElapsed # NoStream =>
    /\ (winAllowed - 1) * Second <= winElapsed * cursorFps
    /\ cursorFps = 20 => winAllowed <= 21

\* a full second of pointer-moves at 20 fps with 21 of them passed
C8_Witness ==
  /\ winElapsed = Second
  /\ winMoved
  /\ cursorFps = 20
  /\ winAllowed = 21

\* what a commit of the title of node id does when it issues wrote durable
\* writes: the buffer written into the title, the edit flag and the
\* editing-node marker cleared, the writes carrying the committed nodes
Committed(id, wrote) ==
  /\ Len(nodes') = Len(nodes)
  /\ \A i \in 1..Len(nodes) :
       nodes[i].id = id =>
         /\ nodes'[i].title = pendingLabel
         /\ ~nodes'[i].isEditing
  /\ editingNodeId' = NoNode
  /\ Len(inflight') = Len(inflight) + wrote
  /\ wrote = 1 => inflight'[Len(inflight')].nodes[1] = nodes'

\* the blur that follows an Enter changes nothing and issues no write
BlurAfterEnterIdle ==
  inputBlurAfterEnter =>
    /\ nodes' = nodes
    /\ editingNodeId' = NoNode
    /\ inflight' = inflight

C10_TypingIsLocal ==
  [][\A v \in Labels :
       handleLabelTyping(v) =>
         /\ graphVars' = graphVars
         /\ inflight' = inflight
         /\ notifs' = notifs
         /\ timerVars' = timerVars
         /\ editingNodeId' = editingNodeId
         /\ last'.sent = 0
         /\ last'.wrote = 0]_vars

\* a keystroke has put a text into the buffer that the title of the edited
\* node does not have
C10_Witness ==
  /\ last.kind = "labelTyping"
  /\ editingNodeId # NoNode
  /\ \E i \in 1..Len(nodes) :
       /\ nodes[i].id = editingNodeId
       /\ nodes[i].isEditing
       /\ nodes[i].title # pendingLabel

\* C11: switching "Show others' cursors" off leaves no overlay entry of
\* another participant and leaves the participant's own entry, if there is
\* one, as it was.
C11_OthersDropped ==
  [][setShowOthersCursors(FALSE) =>
       /\ \A k \in DOMAIN cursors' : k = currentUser
       /\ currentUser \in DOMAIN cursors =>
            (currentUser \in DOMAIN cursors'
               /\ cursors'[currentUser] = cursors[currentUser])
       /\ currentUser \notin DOMAIN cursors => cursors' = EmptyMap]_vars

\* the switch went off while the overlay held the participant's own cursor
\* and a peer's; the own one is what is left
C11_Witness ==
  /\ last.kind = "setShowOthersCursors"
  /\ last.arg = "others"
  /\ ~showOthersCursors
  /\ DOMAIN cursors = {currentUser}

\* two objects read the same: every key gives the same value in both, a
\* key an object does not have reading as undefined
SameFlat(a, b) == \A k \in DOMAIN a \cup DOMAIN b : Get(a, k) = Get(b, k)

SameObject(a, b) ==
  \A k \in DOMAIN a \cup DOMAIN b :
    IF k \in ObjectKeys /\ Get(a, k) # None /\ Get(b, k) # None
    THEN SameFlat(a[k][1], b[k][1])
    ELSE Get(a, k) = Get(b, k)

SameList(xs, ys) ==
  /\ Len(xs) = Len(ys)
  /\ \A i \in 1..Len(xs) : SameObject(xs[i], ys[i])

SameGraph(g, h) ==
  /\ SameList(g.nodes, h.nodes)
  /\ SameList(g.edges, h.edges)
  /\ SameFlat(g.notes, h.notes)
  /\ SameFlat(g.data, h.data)

\* C12: a graph written with updateMapRow and loaded again from the row the
\* store then holds has the same nodes, the same edges with the same style
\* and marker, the same notes and the same auxiliary node data.
C12_RoundTrip ==
  [][(loadMap(row) /\ last.kind = "remount" /\ last.arg.stored)
       => SameGraph(Graph', last.arg.graph)]_vars

\* a graph whose edge was made solid (style { strokeDasharray: undefined },
\* markerEnd undefined) was written, stored and loaded again
C12_Witness ==
  /\ last.kind = "loadMap"
  /\ last.arg = "stored"
  /\ \E i \in 1..Len(edges) :
       /\ "markerEnd" \notin DOMAIN edges[i]
       /\ edges[i].style = Some(EmptyMap)

\* C13: when a peer's 'node-move' for the node the participant drags arrives
\* before the write the drag-stop causes, that write does not carry the
\* peer's position for the node (it carries the participant's last drag
\* position).
C13_DragStopWritesOwnPosition ==
  (last.kind = "dragSaveTimeout" /\ last.wrote = 1 /\ dragWrites # None)
    => \A n \in Range(LastPayload.nodes[1]) :
         n.id \in DragNodes => n.position \notin PeerPositions

\* the positions of the nodes, by identifier
PositionsOf(ns) == {<<ns[i].id, ns[i].position>> : i \in 1..Len(ns)}

\* C14: while a node is being edited, no canvas node change, no peer
\* 'node-move' and no change notification of the row alters a node position
\* or the open edit.
C14_EditFreezesPositions ==
  [][(editingNodeId # NoNode
        /\ last'.kind \in {"nodeDrag", "nodeMove", "mapUpdate"})
       => /\ PositionsOf(nodes') = PositionsOf(nodes)
          /\ UNCHANGED editVars
          /\ InputShown(editingNodeId)' = InputShown(editingNodeId)]_vars

\* C15: on a loaded map, a step of a pointer drag performs no write of the
\* row and schedules none; only the drag-stop schedules one.
C15_DragStepsOnlyBroadcast ==
  [][(mapLoaded /\ last'.kind = "nodeDrag")
       => UNCHANGED <<saveTimeout, dragSaveTimeout, inflight>>]_vars

\* C16: a failed update request changes neither the graph in memory nor the
\* cursor overlay nor the presence roster, no request is sent in its place
\* and no timer is set for one, and the component goes on as before.
C16_FailureContained ==
  [][last'.kind = "storeFail"
       => /\ UNCHANGED <<graphVars, cursors, presenceUsers>>
          /\ inflight' = Tail(inflight)
          /\ UNCHANGED <<timerVars, mapLoaded, selectedElements, editVars, pc, chan, row>>]_vars

\* a write failed while the graph, the overlay and the roster held something
C16_Witness ==
  /\ last.kind = "storeFail"
  /\ nodes # <<>>
  /\ cursors # EmptyMap
  /\ presenceUsers # EmptyMap

\* C17: a write the participant issues right after a change notification
\* of the row was applied (the 300 ms timer was pending when it arrived)
\* does not store a node list captured before the notification: the timer
\* writes nothing, or writes the node list the notification left.
C17_NoStaleWriteAfterSnapshot ==
  [][(last.kind = "mapUpdate" /\ last'.kind = "saveTimeout")
       => (last'.wrote = 0 \/ LastPayload'.nodes[1] = nodes)]_vars

\* C18: the participant has at most one update request in flight.
C18_OneWriteInFlight == Len(inflight) <= 1

\* C19: after a failed fetch of the map row the participant is on no
\* presence/broadcast channel, has issued no update request and receives no
\* change notification.
C19_FailedLoadStaysOut ==
  pc = "failed" => (~chan /\ inflight = <<>> /\ notifs = <<>>)

\* the row the store holds has the graph the component holds
RowIsGraph ==
  /\ OrDefault(row.nodes, <<>>) = nodes
  /\ OrDefault(row.edges, <<>>) = edges
  /\ OrDefault(row.node_notes, EmptyMap) = nodeNotes
  /\ OrDefault(row.node_data, EmptyMap) = nodeData

\* a local edit of the graph
LocalEdit ==
  \/ \E id \in DragNodes, pos \in DragPositions : NodeDrag(id, pos)
  \/ addNode(P10)

\* C20: when the participant's local edits come to an end, then, the timers
\* firing and the writes succeeding, the row the store holds eventually has
\* the nodes, edges, notes and node data of the graph in memory, for good.
C20_EventuallyStored ==
  <>[][~LocalEdit]_vars => <>[](mapLoaded /\ RowIsGraph)

\* an edit of the map by any writer: the participant's or a peer's
AnyEdit ==
  \/ addNode(P10)
  \/ \E doc \in PeerDocs : peerWrite(doc)

\* C21: with several writers on the map, once every writer has stopped, the
\* writes have completed and the notifications have been delivered, the
\* graph the participant holds is the one of the row, for good.
C21_Convergence ==
  <>[][~AnyEdit]_vars => <>[](mapLoaded /\ RowIsGraph)

\* C22: a pointer-move the rate limiter rejects sends no broadcast and
\* leaves the time of the last send and the cursor overlay as they are; it
\* sets no timer, and no step other than a pointer-move sends a 'cursor'
\* broadcast, so nothing is sent later on its behalf.
C22_RejectedMoveDropped ==
  [][/\ (last'.kind = "paneMove" /\ currentUser # NoUser
           /\ TooSoon(sinceCursor, cursorFps))
        => /\ last'.sent = 0
           /\ UNCHANGED <<cursors, sinceCursor, timerVars>>
     /\ last'.kind # "paneMove" => last'.sent = 0]_vars

\* a signed-in participant's pointer-move has just been rejected
C22_Witness ==
  /\ last.kind = "paneMove"
  /\ last.sent = 0
  /\ currentUser # NoUser
  /\ sinceCursor > 0
  /\ TooSoon(sinceCursor, cursorFps)

\* C23 as stated: right after "Show my cursor" is switched off the cursors
\* state has no entry of the participant.
C23_RemovedAtOnce ==
  (last.kind = "setShowMyCursor" /\ ~showMyCursor)
    => currentUser \notin DOMAIN cursors

\* C23, amended: while "Show my cursor" is off the overlay draws no cursor
\* of the participant, from the state right after the switch on; the entry
\* leaves the cursors state with the next pointer-move that passes the
\* limiter.
C23_HiddenAtOnce ==
  /\ ~showMyCursor => currentUser \notin Rendered
  /\ (last.kind = "paneMove" /\ last.sent = 1 /\ ~showMyCursor)
       => currentUser \notin DOMAIN cursors

\* the switch has just gone off with the participant's entry in the state
C23_Witness ==
  /\ last.kind = "setShowMyCursor"
  /\ ~showMyCursor
  /\ currentUser \in DOMAIN cursors

\* C24: every pointer-move that passes the limiter while the channel exists
\* sends one 'cursor' broadcast with the participant's id, whatever the two
\* display switches say.
C24_BroadcastUngated ==
  [][(last'.kind = "paneMove" /\ PaneMoveAllowed /\ chan)
       => (last'.sent = 1 /\ last'.arg = currentUser)]_vars

\* a broadcast went out with both display switches off
C24_Witness ==
  /\ last.kind = "paneMove"
  /\ last.sent = 1
  /\ last.arg = Me
  /\ ~showMyCursor
  /\ ~showOthersCursors

\* C25: each of the two timer refs has at most one pending timer, a drag
\* step (which restarts the 300 ms timer) leaves the 250 ms timer as it is,
\* and a drag-stop (which restarts the 250 ms timer) leaves the 300 ms timer
\* as it is.
C25_TimersIndependent ==
  [][/\ Len(saveTimeout') <= 1
     /\ Len(dragSaveTimeout') <= 1
     /\ last'.kind = "nodeDrag" => dragSaveTimeout' = dragSaveTimeout
     /\ last'.kind = "nodeDragStop" => saveTimeout' = saveTimeout]_vars

\* a drag step restarted the 300 ms timer while both timers were pending
C25_Witness ==
  /\ last.kind = "nodeDrag"
  /\ editingNodeId = NoNode
  /\ saveTimeout # NoTimer
  /\ dragSaveTimeout # NoTimer
  /\ mapLoaded

\* C26: no update request carries a node whose isEditing flag is set.
C26_NoEditFlagStored ==
  \A i \in 1..Len(inflight) :
    \A n \in Range(inflight[i].nodes[1]) : ~n.isEditing

\* every edge of the list joins two nodes of the list
NoDangling(ns, es) ==
  \A i \in 1..Len(es) : {es[i].source, es[i].target} \subseteq NodeIdsOf(ns)

\* C27: on a loaded map, a delete applied to a graph whose edges all join
\* two of its nodes leaves a graph, in memory and in the update request it
\* issues, whose edges all join two of its nodes.
C27_NoDanglingEdge ==
  [][(last'.kind = "delete" /\ mapLoaded /\ NoDangling(nodes, edges))
       => /\ NoDangling(nodes', edges')
          /\ last'.wrote = 1 =>
               NoDangling(LastPayload'.nodes[1], LastPayload'.edges[1])]_vars

\* the identifiers of a node list are pairwise distinct
UniqueIds(ns) ==
  \A i, j \in 1..Len(ns) : ns[i].id = ns[j].id => i = j

\* C28: node identifiers stay unique in the in-memory graph: on a loaded map
\* a step that adds nodes, two addNode calls of one render included, to a list
\* of distinct identifiers leaves a list of distinct identifiers
C28_UniqueNodeIds ==
  [][(last'.kind \in {"addNode", "addNodeTwice"} /\ mapLoaded /\ UniqueIds(nodes))
       => UniqueIds(nodes')]_vars

\* C29: each presence sync replaces the roster entirely: afterwards it has one
\* entry for each participant of the channel's presence state, under that
\* participant's identifier and taken from what that participant tracks, and
\* no entry for anybody else, whatever the roster held before.
C29_RosterReplaced ==
  [][last'.kind = "presenceSync"
       => /\ DOMAIN presenceUsers' = DOMAIN last'.arg
          /\ \A k \in DOMAIN presenceUsers' :
               /\ presenceUsers'[k].userId = k
               /\ \E i \in 1..Len(last'.arg[k]) : presenceUsers'[k] = last'.arg[k][i]]_vars

\* a sync of a state with two connections of the peer alone, while the
\* participant list still names somebody else
C29_Witness ==
  /\ last.kind = "presenceSync"
  /\ DOMAIN last.arg = {Peer}
  /\ Len(last.arg[Peer]) = 2
  /\ DOMAIN presenceUsers = {Peer}
  /\ \E i \in 1..Len(participants) : participants[i].id = Me

\* the online flag of each listed participant says whether the roster has it
FlagsFollowRoster ==
  \A i \in 1..Len(participants) :
    participants[i].online = (participants[i].id \in DOMAIN presenceUsers)

\* C30 as stated: once the roster holds a sync, a refresh of the participant
\* list leaves every online flag equal to membership in the roster.
C30_FlagFollowsRoster ==
  (last.kind = "refreshParticipants" /\ presenceUsers # EmptyMap)
    => FlagsFollowRoster

\* C30: once the roster holds a sync, the status shown for each listed
\* participant is membership in the roster, also right after a refresh of
\* the participant list; the online flags equal membership in the roster
\* right after each sync.
C30_StatusFollowsRoster ==
  /\ (last.kind = "refreshParticipants" /\ presenceUsers # EmptyMap)
       => \A i \in 1..Len(participants) :
            (StatusShown(participants[i]) = "online")
              <=> participants[i].id \in DOMAIN presenceUsers
  /\ last.kind = "presenceSync" => FlagsFollowRoster

\* a refresh after a sync set a flag that differs from the roster
C30_Witness ==
  /\ last.kind = "refreshParticipants"
  /\ presenceUsers # EmptyMap
  /\ ~FlagsFollowRoster

\* the keystroke handlers of the text fields
Keystrokes ==
  {"labelTyping", "noteChange", "linkChange", "mapNameChange",
   "mapDescriptionChange", "edgeLabelChange"}

\* C31: a keystroke in a text field (title, note, link, map name, map
\* description, edge label) issues no update request and sends no broadcast.
C31_KeystrokesAreLocal ==
  [][last'.kind \in Keystrokes
       => (last'.wrote = 0 /\ last'.sent = 0 /\ UNCHANGED inflight)]_vars

\* the identifiers of an edge list
EdgeIdsOf(es) == {es[i].id : i \in 1..Len(es)}

\* C32: after an update request failed, and with no snapshot applied since,
\* the request that the next local mutation issues contains what the failed
\* request carried and the graph in memory still holds: its nodes, its edges
\* and its notes.
C32_NextWriteCarriesFailed ==
  [][(/\ failedWrite # None
      /\ last'.wrote > 0
      /\ last'.kind \notin {"saveTimeout", "dragSaveTimeout"})
       => LET failed == failedWrite[1]
              next == LastPayload'
          IN  /\ NodeIdsOf(failed.nodes[1]) \cap NodeIdsOf(nodes')
                   \subseteq NodeIdsOf(next.nodes[1])
              /\ EdgeIdsOf(failed.edges[1]) \cap EdgeIdsOf(edges')
                   \subseteq EdgeIdsOf(next.edges[1])
              /\ \A k \in DOMAIN failed.node_notes[1] \cap DOMAIN nodeNotes' :
                   nodeNotes'[k] = failed.node_notes[1][k]
                     => /\ k \in DOMAIN next.node_notes[1]
                        /\ next.node_notes[1][k] = nodeNotes'[k]]_vars

\* C33: after a presence sync whose state does not contain a peer, neither
\* the roster nor the cursor overlay holds an entry for that peer.
C33_StaleEntriesCleared ==
  last.kind = "presenceSync"
    => \A P \in UserIds \ (DOMAIN last.arg \cup {currentUser}) :
         /\ P \notin DOMAIN presenceUsers
         /\ P \notin DOMAIN cursors

\* C34: the editing-node marker is set exactly when the node it names is in
\* the graph in memory with its edit flag set, and no other node has the
\* flag set.
C34_MarkerMatchesFlag ==
  /\ editingNodeId # NoNode
       => \E i \in 1..Len(nodes) : nodes[i].id = editingNodeId /\ nodes[i].isEditing
  /\ \A i \in 1..Len(nodes) : nodes[i].isEditing => nodes[i].id = editingNodeId

\* C35: with no peer writing, every change notification comes from a write
\* of the participant itself; applying one discards nothing the participant
\* has done since: the nodes in memory stay in memory and the notes keep
\* their text.
C35_OwnEchoKeepsNewer ==
  [][last'.kind = "mapUpdate"
       => /\ NodeIdsOf(nodes) \subseteq NodeIdsOf(nodes')
          /\ \A k \in DOMAIN nodeNotes :
               k \in DOMAIN nodeNotes' /\ nodeNotes'[k] = nodeNotes[k]]_vars

\* C36: applying a change notification issues no update request, sets no
\* timer, cancels no pending timer and sends no broadcast.
C36_NotificationOnlyApplies ==
  [][last'.kind = "mapUpdate"
       => /\ UNCHANGED <<inflight, saveTimeout, dragSaveTimeout>>
          /\ last'.wrote = 0
          /\ last'.sent = 0]_vars

\* a notification was applied while the 300 ms timer was pending
C36_Witness ==
  /\ last.kind = "mapUpdate"
  /\ saveTimeout # NoTimer
  /\ nodes # <<>>

\* C37: every change notification that is applied comes from the
\* subscription of the map the component shows.
C37_OnlyCurrentMapApplied ==
  [][last'.kind = "mapUpdate" => last'.arg = mapId']_vars

\* the handlers and timer callbacks that call updateMapRow
CallsUpdateMapRow ==
  {"addNode", "addNodeTwice", "edgeChanges", "chooseEdgeStyle", "inputBlur",
   "inputEnter", "blurAfterEnter", "delete", "fieldBlur", "edgeLabelChange",
   "nodeDragStop", "saveTimeout", "dragSaveTimeout"}

\* C38: while the map is not loaded, a local operation or timer callback that
\* calls updateMapRow issues no update request and changes nothing of the
\* graph in memory.
C38_NoEffectBeforeLoad ==
  [][(~mapLoaded /\ last'.kind \in CallsUpdateMapRow)
       => UNCHANGED <<inflight, graphVars>>]_vars

\* C39: while "Show others' cursors" is off, the cursor overlay holds no
\* entry of a participant other than the local one.
C39_NoPeerCursorWhileOff ==
  ~showOthersCursors => \A k \in DOMAIN cursors : k = currentUser

\* a peer's cursor broadcast arrived while the switch was off and the
\* overlay held the participant's own cursor
C39_Witness ==
  /\ last.kind = "cursor"
  /\ last.arg = Peer
  /\ ~showOthersCursors
  /\ DOMAIN cursors = {currentUser}

\* C40: a peer's 'node-move' broadcast changes nothing but the position of
\* the nodes with the identifier it names, which becomes the position it
\* carries: the node list keeps its length and order, every node keeps its
\* identifier, title and edit flag, the edges, the notes, the link data, the
\* map's name and description and the cursor overlay are unchanged, and a
\* broadcast that names no node, or a node the list does not have, changes
\* nothing.
C40_NodeMoveOnlyMoves ==
  [][\A u \in UserIds, id \in DragNodes \cup {""}, pos \in PeerPositions :
       recvNodeMove(u, id, pos)
         => /\ Len(nodes') = Len(nodes)
            /\ \A i \in 1..Len(nodes) :
                 /\ nodes'[i] = [nodes[i] EXCEPT !.position = nodes'[i].position]
                 /\ nodes[i].id # id => nodes'[i] = nodes[i]
                 /\ nodes'[i] # nodes[i] => nodes'[i].position = pos
            /\ UNCHANGED <<edges, nodeNotes, nodeData, mapName, mapDescription,
                           cursors, inflight>>
            /\ (id = "" \/ id \notin NodeIdsOf(nodes)) => nodes' = nodes]_vars

\* a peer moved node 1 of a graph with two nodes and an edge
C40_Witness ==
  /\ last.kind = "nodeMove"
  /\ last.arg = Peer
  /\ Len(nodes) = 2
  /\ edges # <<>>
  /\ \E i, j \in 1..Len(nodes) :
       /\ nodes[i].id = "1" /\ nodes[i].position \in PeerPositions
       /\ nodes[j].id # "1" /\ nodes[j].position \notin PeerPositions

=============================================================================
